---- MODULE Spec2Model ----
(***************************************************************************)
(* Model of the two batch re-encoders fix_ogg_files.py and fix_ogg_xray.py *)
(* A run is main -> tools check -> process_directory -> one reencode_ogg   *)
(* per discovered file -> summary.  The filesystem is a function from the  *)
(* existing paths to their content; the external tools and every I/O call  *)
(* that can raise are choices of the environment.                          *)
(***************************************************************************)
EXTENDS Integers, Sequences, FiniteSets, TLC

\* Number of consecutive runs of the script over the same directory.
MaxRuns == 2
\* Number of environment failures (tool failures, I/O errors) in a behaviour.
MaxFaults == 3

(***************************************************************************)
(* Strings are sequences of characters, paths are a directory (sequence of *)
(* directory names below the root) and a file name.                        *)
(***************************************************************************)
Dot == "."
Ext_ogg == <<Dot, "o", "g", "g">>
Ext_bak == <<Dot, "b", "a", "k">>
Ext_ogg_bak == Ext_ogg \o Ext_bak
Ext_tmp_ogg == <<Dot, "t", "m", "p">> \o Ext_ogg
TmpMarker == <<Dot, "t", "m", "p", Dot>>
Sep == "/"

EndsWith(s, t) ==
  /\ Len(t) <= Len(s)
  /\ SubSeq(s, Len(s) - Len(t) + 1, Len(s)) = t

Contains(s, t) ==
  \E k \in 1..(Len(s) - Len(t) + 1) : SubSeq(s, k, k + Len(t) - 1) = t

\* PurePath.suffix: from the last dot of the name, unless the name starts or
\* ends with that dot.
LastDot(s) ==
  IF \E k \in 1..Len(s) : s[k] = Dot
  THEN CHOOSE k \in 1..Len(s) :
         /\ s[k] = Dot
         /\ \A m \in (k + 1)..Len(s) : s[m] # Dot
  ELSE 0

Suffix(s) ==
  IF LastDot(s) > 1 /\ LastDot(s) < Len(s)
  THEN SubSeq(s, LastDot(s), Len(s))
  ELSE <<>>

\* PurePath.with_suffix: the name without its suffix, then the new suffix.
WithSuffix(p, suf) ==
  [dir |-> p.dir,
   name |-> SubSeq(p.name, 1, Len(p.name) - Len(Suffix(p.name))) \o suf]

\* str(path): the root, the directories and the name joined by the separator.
RootStr == <<"s", "n", "d">>

RECURSIVE JoinDirs(_)
JoinDirs(ds) ==
  IF ds = <<>> THEN <<>> ELSE Head(ds) \o <<Sep>> \o JoinDirs(Tail(ds))

StrOf(p) == RootStr \o <<Sep>> \o JoinDirs(p.dir) \o p.name

\* fnmatch of the pattern *.ogg against a file name.
MatchesOgg(name) == EndsWith(name, Ext_ogg)

(***************************************************************************)
(* The directory tree of the model.                                        *)
(***************************************************************************)
File(d, n) == [dir |-> d, name |-> n]
Sub == <<"s", "u", "b">>

P_a == File(<<>>, <<"a">> \o Ext_ogg)
P_b == File(<<>>, <<"b">> \o Ext_bak \o Ext_ogg)
P_c == File(<<Sub>>, <<"c">> \o Ext_ogg)
P_wav == File(<<>>, <<"e", Dot, "w", "a", "v">>)
P_a_bak == File(<<>>, <<"a">> \o Ext_ogg_bak)
P_a_tmp == File(<<>>, <<"a">> \o Ext_tmp_ogg)
P_b_tmp == File(<<>>, <<"b">> \o Ext_bak \o Ext_tmp_ogg)
P_c_tmp == File(<<Sub>>, <<"c">> \o Ext_tmp_ogg)

\* The order in which the filesystem enumerates the tree.
Listing == <<P_a, P_a_bak, P_a_tmp, P_b, P_b_tmp, P_wav, P_c, P_c_tmp>>

(***************************************************************************)
(* File contents: a version of the audio, complete or cut short.           *)
(***************************************************************************)
Full(v) == [st |-> "full", v |-> v]
Partial(v) == [st |-> "partial", v |-> v]

\* What the external encoder makes of a content: new bytes, as complete as
\* its input was.
Encode(c) == [st |-> c.st, v |-> c.v + 1]

Exists(f, p) == p \in DOMAIN f
Write(f, p, c) == [q \in (DOMAIN f) \cup {p} |-> IF q = p THEN c ELSE f[q]]
Remove(f, p) == [q \in (DOMAIN f) \ {p} |-> f[q]]
Rename(f, src, dst) == Write(Remove(Remove(f, dst), src), dst, f[src])

InitialTree(staleBak, staleTmp) ==
  [p \in {P_a, P_b, P_c, P_wav}
         \cup (IF staleBak THEN {P_a_bak} ELSE {})
         \cup (IF staleTmp THEN {P_a_tmp} ELSE {})
     |-> IF p \in {P_a_bak, P_a_tmp} THEN Full(0) ELSE Full(1)]

NoFiles == [p \in {} |-> Full(0)]

\* The content read at a path that holds no file.
NoContent == [st |-> "absent", v |-> 0]
ReadC(f, p) == IF Exists(f, p) THEN f[p] ELSE NoContent

VARIABLES
  script,      \* "files" (fix_ogg_files.py) or "xray" (fix_ogg_xray.py)
  recursive,   \* the -r flag
  hasFfmpeg,   \* ffmpeg can be located and invoked
  hasOggenc,   \* oggenc can be located and invoked
  dirExists,   \* the target directory exists
  fs,          \* the files under the target directory
  tmpdir,      \* fix_ogg_xray's temporary directory
  pc,          \* position of the control
  ogg_files,   \* the Target Set, in processing order
  i,           \* loop index (1-based)
  success,
  failed,
  summary,     \* the summary line was printed in this run
  exitCode,    \* the exit code, once pc = "exited"
  rc,          \* return code of the last external tool
  ret,         \* result of reencode_ogg
  run,         \* number of the current run
  faults,      \* environment failures so far
  orig,        \* the files when the run started
  pre,         \* content of the current file when reencode_ogg started
  calls,       \* reencode_ogg calls in this run
  toolFailed,  \* an external tool failed on the current file
  tmpMade      \* a temporary artifact was created for the current file

env == <<script, recursive, hasFfmpeg, hasOggenc, dirExists>>
counters == <<success, failed, summary, exitCode>>
loopvars == <<ogg_files, i>>
ghost == <<run, orig, pre, calls>>
vars == <<env, fs, tmpdir, pc, loopvars, counters, rc, ret, faults, ghost,
          toolFailed, tmpMade>>

NoTmpDir == [exists |-> FALSE, wav |-> NoContent, ogg |-> NoContent]

Init ==
  /\ script \in {"files", "xray"}
  /\ recursive \in BOOLEAN
  /\ hasFfmpeg \in BOOLEAN
  /\ hasOggenc \in (IF script = "xray" THEN BOOLEAN ELSE {TRUE})
  /\ dirExists \in BOOLEAN
  /\ \E staleBak \in BOOLEAN, staleTmp \in BOOLEAN :
       fs = IF dirExists THEN InitialTree(staleBak, staleTmp) ELSE NoFiles
  /\ tmpdir = NoTmpDir
  /\ pc = "main"
  /\ ogg_files = <<>>
  /\ i = 1
  /\ success = 0
  /\ failed = 0
  /\ summary = FALSE
  /\ exitCode = 0
  /\ rc = 0
  /\ ret = FALSE
  /\ run = 1
  /\ faults = 0
  /\ orig = fs
  /\ pre = NoContent
  /\ calls = 0
  /\ toolFailed = FALSE
  /\ tmpMade = FALSE

\* The outcomes the environment may still choose from.
Outcomes(S) == IF faults < MaxFaults THEN S ELSE {"ok"}
Charge(o) == faults' = IF o = "ok" THEN faults ELSE faults + 1

(***************************************************************************)
(* main                                                                    *)
(***************************************************************************)
ToolsOK == IF script = "files" THEN hasFfmpeg ELSE hasFfmpeg /\ hasOggenc

Exit(code) ==
  /\ pc' = "exited"
  /\ exitCode' = code

\* Mutant of Main: the tools check reports but does not end the run.
Main_NoToolsExit ==
  /\ pc = "main"
  /\ pc' = "process_directory"
  /\ UNCHANGED <<env, fs, tmpdir, loopvars, counters, rc, ret, faults, ghost,
                 toolFailed, tmpMade>>

Main ==
  /\ pc = "main"
  /\ IF ~ToolsOK
     THEN Exit(1)
     ELSE /\ pc' = "process_directory"
          /\ exitCode' = exitCode
  /\ UNCHANGED <<env, fs, tmpdir, loopvars, success, failed, summary, rc, ret,
                 faults, ghost, toolFailed, tmpMade>>

(***************************************************************************)
(* process_directory: discovery                                            *)
(***************************************************************************)
\* Path.glob("*.ogg") / Path.rglob("*.ogg") over the existing files.
Glob(f, rec) ==
  SelectSeq(Listing, LAMBDA p : /\ Exists(f, p)
                                /\ MatchesOgg(p.name)
                                /\ (rec \/ p.dir = <<>>))

KeepFiles(p) == ~EndsWith(p.name, Ext_bak) /\ ~Contains(p.name, TmpMarker)
KeepXray(p) == ~Contains(StrOf(p), Ext_bak)

Discover(f, rec) ==
  IF script = "files"
  THEN SelectSeq(Glob(f, rec), KeepFiles)
  ELSE SelectSeq(Glob(f, rec), KeepXray)

ProcessDirectory ==
  /\ pc = "process_directory"
  /\ IF ~dirExists
     THEN /\ Exit(0)
          /\ UNCHANGED <<loopvars, success, failed>>
     ELSE /\ ogg_files' = Discover(fs, recursive)
          /\ i' = 1
          /\ success' = 0
          /\ failed' = 0
          /\ IF ogg_files' = <<>>
             THEN Exit(0)
             ELSE pc' = "loop" /\ exitCode' = exitCode
  /\ UNCHANGED <<env, fs, tmpdir, summary, rc, ret, faults, ghost, toolFailed,
                 tmpMade>>

(***************************************************************************)
(* process_directory: the loop                                             *)
(***************************************************************************)
Cur == ogg_files[i]

LoopBody ==
  /\ pc = "loop"
  /\ i <= Len(ogg_files)
  /\ pc' = "reencode"
  /\ pre' = ReadC(fs, Cur)
  /\ calls' = calls + 1
  /\ toolFailed' = FALSE
  /\ tmpMade' = FALSE
  /\ ret' = FALSE
  /\ UNCHANGED <<env, fs, tmpdir, loopvars, counters, rc, faults, run, orig>>

Account ==
  /\ pc = "returned"
  /\ IF ret
     THEN success' = success + 1 /\ failed' = failed
     ELSE failed' = failed + 1 /\ success' = success
  /\ i' = i + 1
  /\ pc' = "loop"
  /\ UNCHANGED <<env, fs, tmpdir, ogg_files, summary, exitCode, rc, ret,
                 faults, ghost, toolFailed, tmpMade>>

Summary ==
  /\ pc = "loop"
  /\ i > Len(ogg_files)
  /\ summary' = TRUE
  /\ Exit(0)
  /\ UNCHANGED <<env, fs, tmpdir, loopvars, success, failed, rc, ret, faults,
                 ghost, toolFailed, tmpMade>>

\* An exception nobody catches ends the process with a traceback.
Crash == Exit(1)

Return(r) ==
  /\ ret' = r
  /\ pc' = "returned"

\* What an external tool can do when asked to write an output file.
ToolOutcomes(available) ==
  IF available
  THEN Outcomes({"ok", "fail_none", "fail_partial", "raise"})
  ELSE {"raise"}

(***************************************************************************)
(* fix_ogg_files.py: reencode_ogg                                          *)
(***************************************************************************)
TempPath(p) == WithSuffix(p, Ext_tmp_ogg)
\* Mutant of BackupPath: the backup suffix replaces .ogg instead of following it.
BackupPath_DropsOgg(p) == WithSuffix(p, Ext_bak)
BackupPath(p) == WithSuffix(p, Ext_ogg_bak)

F_Start ==
  /\ pc = "reencode"
  /\ script = "files"
  /\ IF ~Exists(fs, Cur)
     THEN Return(FALSE)
     ELSE pc' = "f_ffmpeg" /\ ret' = ret
  /\ UNCHANGED <<env, fs, tmpdir, loopvars, counters, rc, faults, ghost,
                 toolFailed, tmpMade>>

F_Ffmpeg ==
  /\ pc = "f_ffmpeg"
  /\ \E o \in ToolOutcomes(hasFfmpeg) :
       /\ Charge(o)
       /\ toolFailed' = (o # "ok")
       /\ tmpMade' = (o \in {"ok", "fail_partial"})
       /\ rc' = CASE o = "ok" -> 0 [] o = "raise" -> rc [] OTHER -> 1
       /\ pc' = IF o = "raise" THEN "f_except" ELSE "f_check"
       /\ fs' = CASE o = "ok" -> Write(fs, TempPath(Cur), Encode(fs[Cur]))
                  [] o = "fail_partial" ->
                       Write(fs, TempPath(Cur), Partial(fs[Cur].v + 1))
                  [] OTHER -> fs
  /\ UNCHANGED <<env, tmpdir, loopvars, counters, ret, ghost>>

F_CheckRc ==
  /\ pc = "f_check"
  /\ IF rc # 0
     THEN IF Exists(fs, TempPath(Cur))
          THEN \E o \in Outcomes({"ok", "unlink_fails"}) :
                 /\ Charge(o)
                 /\ IF o = "ok"
                    THEN fs' = Remove(fs, TempPath(Cur)) /\ Return(FALSE)
                    ELSE fs' = fs /\ pc' = "f_except" /\ ret' = ret
          ELSE Return(FALSE) /\ UNCHANGED <<fs, faults>>
     ELSE pc' = "f_backup" /\ UNCHANGED <<fs, faults, ret>>
  /\ UNCHANGED <<env, tmpdir, loopvars, counters, rc, ghost, toolFailed,
                 tmpMade>>

F_Backup ==
  /\ pc = "f_backup"
  /\ \E o \in Outcomes({"ok", "unlink_fails", "copy_fails", "copy_partial"}) :
       /\ o = "unlink_fails" => Exists(fs, BackupPath(Cur))
       /\ Charge(o)
       /\ pc' = IF o = "ok" THEN "f_replace" ELSE "f_except"
       /\ fs' = CASE o = "ok" -> Write(fs, BackupPath(Cur), fs[Cur])
                  [] o = "unlink_fails" -> fs
                  [] o = "copy_fails" -> Remove(fs, BackupPath(Cur))
                  [] o = "copy_partial" ->
                       Write(fs, BackupPath(Cur), Partial(fs[Cur].v))
  /\ UNCHANGED <<env, tmpdir, loopvars, counters, rc, ret, ghost, toolFailed,
                 tmpMade>>

F_Replace ==
  /\ pc = "f_replace"
  /\ \E o \in Outcomes({"ok", "unlink_fails", "rename_fails"}) :
       /\ Charge(o)
       /\ CASE o = "unlink_fails" ->
                 fs' = fs /\ pc' = "f_except" /\ ret' = ret
            [] o = "ok" /\ Exists(fs, TempPath(Cur)) ->
                 /\ fs' = Rename(Remove(fs, Cur), TempPath(Cur), Cur)
                 /\ Return(TRUE)
            [] OTHER ->
                 fs' = Remove(fs, Cur) /\ pc' = "f_except" /\ ret' = ret
  /\ UNCHANGED <<env, tmpdir, loopvars, counters, rc, ghost, toolFailed,
                 tmpMade>>

\* Mutant of F_Except: the handler reports the error and forgets the cleanup.
F_Except_NoCleanup ==
  /\ pc = "f_except"
  /\ Return(FALSE)
  /\ UNCHANGED <<env, fs, tmpdir, loopvars, counters, rc, faults, ghost,
                 toolFailed, tmpMade>>

F_Except ==
  /\ pc = "f_except"
  /\ IF Exists(fs, TempPath(Cur))
     THEN \E o \in Outcomes({"ok", "unlink_fails"}) :
            /\ Charge(o)
            /\ IF o = "ok"
               THEN /\ fs' = Remove(fs, TempPath(Cur))
                    /\ Return(FALSE)
                    /\ exitCode' = exitCode
               ELSE fs' = fs /\ Crash /\ ret' = ret
     ELSE Return(FALSE) /\ UNCHANGED <<fs, faults, exitCode>>
  /\ UNCHANGED <<env, tmpdir, loopvars, success, failed, summary, rc, ghost,
                 toolFailed, tmpMade>>

(***************************************************************************)
(* fix_ogg_xray.py: reencode_ogg                                           *)
(***************************************************************************)
X_Start ==
  /\ pc = "reencode"
  /\ script = "xray"
  /\ IF ~Exists(fs, Cur)
     THEN Return(FALSE) /\ tmpdir' = tmpdir
     ELSE /\ tmpdir' = [exists |-> TRUE, wav |-> NoContent, ogg |-> NoContent]
          /\ pc' = "x_decode"
          /\ ret' = ret
  /\ UNCHANGED <<env, fs, loopvars, counters, rc, faults, ghost, toolFailed,
                 tmpMade>>

X_Decode ==
  /\ pc = "x_decode"
  /\ \E o \in ToolOutcomes(hasFfmpeg) :
       /\ Charge(o)
       /\ toolFailed' = (o # "ok")
       /\ tmpMade' = (o \in {"ok", "fail_partial"})
       /\ rc' = CASE o = "ok" -> 0 [] o = "raise" -> rc [] OTHER -> 1
       /\ tmpdir' = CASE o = "ok" -> [tmpdir EXCEPT !.wav = fs[Cur]]
                      [] o = "fail_partial" ->
                           [tmpdir EXCEPT !.wav = Partial(fs[Cur].v)]
                      [] OTHER -> tmpdir
       /\ pc' = IF tmpdir'.wav = NoContent THEN "x_exit" ELSE "x_encode"
  /\ ret' = FALSE
  /\ UNCHANGED <<env, fs, loopvars, counters, ghost>>

X_Encode ==
  /\ pc = "x_encode"
  /\ \E o \in ToolOutcomes(hasOggenc) :
       /\ Charge(o)
       /\ toolFailed' = (toolFailed \/ o # "ok")
       /\ rc' = CASE o = "ok" -> 0 [] o = "raise" -> rc [] OTHER -> 1
       /\ tmpdir' = CASE o = "ok" -> [tmpdir EXCEPT !.ogg = Encode(tmpdir.wav)]
                      [] o = "fail_partial" ->
                           [tmpdir EXCEPT !.ogg = Partial(tmpdir.wav.v + 1)]
                      [] OTHER -> tmpdir
       /\ pc' = IF tmpdir'.ogg = NoContent THEN "x_exit" ELSE "x_backup"
  /\ ret' = FALSE
  /\ UNCHANGED <<env, fs, loopvars, counters, ghost, tmpMade>>

\* Mutant of X_Backup: the backup is copied whether or not one exists.
X_Backup_Always ==
  /\ pc = "x_backup"
  /\ \E o \in Outcomes({"ok", "copy_fails", "copy_partial"}) :
       /\ Charge(o)
       /\ fs' = CASE o = "ok" -> Write(fs, BackupPath(Cur), fs[Cur])
                  [] o = "copy_fails" -> fs
                  [] o = "copy_partial" ->
                       Write(fs, BackupPath(Cur), Partial(fs[Cur].v))
  /\ pc' = "x_replace"
  /\ UNCHANGED <<env, tmpdir, loopvars, counters, rc, ret, ghost, toolFailed,
                 tmpMade>>

X_Backup ==
  /\ pc = "x_backup"
  /\ IF ~Exists(fs, BackupPath(Cur))
     THEN \E o \in Outcomes({"ok", "copy_fails", "copy_partial"}) :
            /\ Charge(o)
            /\ fs' = CASE o = "ok" -> Write(fs, BackupPath(Cur), fs[Cur])
                       [] o = "copy_fails" -> fs
                       [] o = "copy_partial" ->
                            Write(fs, BackupPath(Cur), Partial(fs[Cur].v))
     ELSE UNCHANGED <<fs, faults>>
  /\ pc' = "x_replace"
  /\ UNCHANGED <<env, tmpdir, loopvars, counters, rc, ret, ghost, toolFailed,
                 tmpMade>>

X_Replace ==
  /\ pc = "x_replace"
  /\ \E o \in Outcomes({"ok", "copy_fails", "copy_partial"}) :
       /\ Charge(o)
       /\ ret' = (o = "ok")
       /\ fs' = CASE o = "ok" -> Write(fs, Cur, tmpdir.ogg)
                  [] o = "copy_fails" -> fs
                  [] o = "copy_partial" ->
                       Write(fs, Cur, Partial(tmpdir.ogg.v))
  /\ pc' = "x_exit"
  /\ UNCHANGED <<env, tmpdir, loopvars, counters, rc, ghost, toolFailed,
                 tmpMade>>

\* Leaving the with block: TemporaryDirectory removes the directory, or raises.
X_Exit ==
  /\ pc = "x_exit"
  /\ \E o \in Outcomes({"ok", "cleanup_fails"}) :
       /\ Charge(o)
       /\ IF o = "ok"
          THEN tmpdir' = NoTmpDir /\ pc' = "returned" /\ exitCode' = exitCode
          ELSE tmpdir' = tmpdir /\ Crash
  /\ UNCHANGED <<env, fs, loopvars, success, failed, summary, rc, ret, ghost,
                 toolFailed, tmpMade>>

(***************************************************************************)
(* The script is run again over the same directory.                        *)
(***************************************************************************)
NewRun ==
  /\ pc = "exited"
  /\ run < MaxRuns
  /\ run' = run + 1
  /\ pc' = "main"
  /\ orig' = fs
  /\ tmpdir' = NoTmpDir
  /\ ogg_files' = <<>>
  /\ i' = 1
  /\ success' = 0
  /\ failed' = 0
  /\ summary' = FALSE
  /\ exitCode' = 0
  /\ rc' = 0
  /\ ret' = FALSE
  /\ pre' = NoContent
  /\ calls' = 0
  /\ toolFailed' = FALSE
  /\ tmpMade' = FALSE
  /\ UNCHANGED <<env, fs, faults>>

Next ==
  \/ Main
  \/ ProcessDirectory
  \/ LoopBody
  \/ Account
  \/ Summary
  \/ F_Start
  \/ F_Ffmpeg
  \/ F_CheckRc
  \/ F_Backup
  \/ F_Replace
  \/ F_Except
  \/ X_Start
  \/ X_Decode
  \/ X_Encode
  \/ X_Backup
  \/ X_Replace
  \/ X_Exit
  \/ NewRun

Spec == Init /\ [][Next]_vars

(***************************************************************************)
(* Vocabulary of the properties, stated independently of the code's path   *)
(* arithmetic.                                                             *)
(***************************************************************************)
Range(q) == {q[k] : k \in DOMAIN q}

\* name.ogg.bak and name.tmp.ogg next to name.ogg
BakOf(p) == [dir |-> p.dir, name |-> p.name \o Ext_bak]
TmpOf(p) ==
  [dir |-> p.dir,
   name |-> SubSeq(p.name, 1, Len(p.name) - Len(Ext_ogg)) \o Ext_tmp_ogg]

\* The Target Set as the specification defines it.
ExpectedTargets(f, rec) ==
  {p \in DOMAIN f : /\ MatchesOgg(p.name)
                    /\ (rec \/ p.dir = <<>>)
                    /\ ~EndsWith(p.name, Ext_bak)
                    /\ ~Contains(p.name, TmpMarker)}

ProcessLevelError == ~ToolsOK \/ ~dirExists

SameAsAtStart(p) == ReadC(fs, p) = ReadC(orig, p)

\* C1: when the external transform failed for a file, reencode_ogg reports
\* failure and the canonical path still holds the bytes it held before.
C1_ToolFailureKeepsOriginal ==
  (pc = "returned" /\ toolFailed) => (ret = FALSE /\ ReadC(fs, Cur) = pre)

\* C2: whenever reencode_ogg has returned, the canonical path holds the
\* complete original or the complete transformed bytes, and the original
\* unless the replacement completed.
C2_CanonicalNeverDamaged ==
  pc = "returned" =>
    /\ ReadC(fs, Cur) \in {pre, Encode(pre)}
    /\ ~ret => ReadC(fs, Cur) = pre

\* C3: the exit code is 1 exactly when a tool is unavailable or the target
\* directory does not exist, and 0 in every other run.
C3_ExitCode ==
  pc = "exited" => exitCode = (IF ProcessLevelError THEN 1 ELSE 0)

\* C4: once both checks passed, the run ends with the summary printed, every
\* file of the Target Set processed once and Success + Failed equal to the
\* number of files found.
C4_LoopCompletes ==
  (pc = "exited" /\ ~ProcessLevelError) =>
    /\ summary
    /\ calls = Len(ogg_files)
    /\ success + failed = Len(ogg_files)

\* C5: whenever reencode_ogg reports success, the canonical path holds the
\* transformed bytes and name.ogg.bak holds the pre-transform original.
C5_SuccessLeavesBackup ==
  (pc = "returned" /\ ret) =>
    /\ ReadC(fs, Cur) = Encode(pre)
    /\ ReadC(fs, BakOf(Cur)) = pre

\* C6: in both scripts the discovered files are exactly the *.ogg paths of the
\* requested depth whose name neither ends with .bak nor contains .tmp.
C6_TargetSet ==
  (~ProcessLevelError /\ pc \notin {"main", "process_directory"}) =>
    Range(ogg_files) = ExpectedTargets(orig, recursive)

\* C7: in a run with a process-level error no file is created, modified or
\* deleted and reencode_ogg is never called.
C7_NoMutationOnProcessError ==
  ProcessLevelError => (fs = orig /\ calls = 0 /\ ~tmpdir.exists)

C7_Witness ==
  /\ pc = "exited"
  /\ ~ToolsOK
  /\ dirExists
  /\ P_a \in DOMAIN fs
  /\ exitCode = 1

\* C8: when reencode_ogg has returned for a file, the file's temporary
\* artifact is gone: name.tmp.ogg in fix_ogg_files, the temporary directory
\* in fix_ogg_xray; this stays so for every file already processed.
C8_NoTempLeftBehind ==
  pc \in {"returned", "loop"} =>
    /\ ~tmpdir.exists
    /\ script = "files" =>
         \A k \in 1..Len(ogg_files) :
           (k < i \/ (k = i /\ pc = "returned")) =>
             ~Exists(fs, TmpOf(ogg_files[k]))

C8_Witness ==
  /\ pc = "returned"
  /\ script = "files"
  /\ rc = 0
  /\ tmpMade
  /\ ~ret
  /\ ~Exists(fs, TmpOf(Cur))

\* C9: fix_ogg_xray never modifies or removes a name.ogg.bak that exists,
\* in this or a later run, and fix_ogg_files leaves in name.ogg.bak the
\* pre-transform original on every successful transform.
C9_BackupPolicy ==
  [][/\ script = "xray" =>
          \A p \in DOMAIN fs :
            EndsWith(p.name, Ext_ogg_bak) =>
              (p \in DOMAIN fs' /\ fs'[p] = fs[p])
     /\ (script = "files" /\ pc' = "returned" /\ ret') =>
          ReadC(fs', BakOf(Cur)) = pre']_vars

C9_Witness ==
  /\ script = "xray"
  /\ run = 2
  /\ pc = "returned"
  /\ ret
  /\ Cur = P_a
  /\ pre = Full(2)
  /\ ReadC(fs, BakOf(Cur)) = Full(1)

\* C10 as stated: after a completed run of fix_ogg_files every path other
\* than the Target Set files and their name.ogg.bak is as it was at start.
C10_OnlyTargetsAndBackups ==
  (script = "files" /\ pc = "exited" /\ summary) =>
    \A p \in (DOMAIN fs) \cup (DOMAIN orig) :
      (\A t \in ExpectedTargets(orig, recursive) : p \notin {t, BakOf(t)})
        => SameAsAtStart(p)

\* C10 amended: fix_ogg_files creates, modifies or deletes only the Target
\* Set files, their name.ogg.bak and their name.tmp.ogg; every other path is
\* as it was when the run started.
C10_OnlyTargetsBackupsAndTemps ==
  script = "files" =>
    \A p \in (DOMAIN fs) \cup (DOMAIN orig) :
      (\A t \in ExpectedTargets(orig, recursive) :
         p \notin {t, BakOf(t), TmpOf(t)})
        => SameAsAtStart(p)

C10_Witness ==
  /\ script = "files"
  /\ pc = "exited"
  /\ summary
  /\ success = Len(ogg_files)
  /\ P_a_tmp \in DOMAIN orig
  /\ P_a_tmp \notin DOMAIN fs
  /\ SameAsAtStart(P_wav)

====
